---- MODULE Spec2Model ----
(***************************************************************************)
(* State-machine model of api/server.py: the Flask handlers /generate and  *)
(* /generate_zip, the streaming generator generate_frames_impl and the     *)
(* frame helpers send_progress_update / send_error_update / send_file.     *)
(*                                                                         *)
(* A request is a slot r.  The generator is modelled yield by yield: the   *)
(* program counter pc[r] = "yNN" means the generator of request r is       *)
(* suspended at the yield of source line NN, and the action resume_yNN     *)
(* runs the code from that yield up to the next one.  The call pipe.run    *)
(* is split in a call step and a return step so that a call in flight is   *)
(* a visible state.                                                        *)
(***************************************************************************)
EXTENDS Integers, Sequences, FiniteSets, TLC

VARIABLES
    pipe,      \* TRUE: the model loaded at startup; FALSE: pipe is None
    clients,   \* the request slots on which a client sends a request
    faulty,    \* the request slots whose collaborator calls may raise
    impatient, \* the request slots whose client may disconnect mid-stream
    pc,        \* per request: where its handler / generator stands
    endpoint,  \* per request: "generate" or "generate_zip" ("" before arrival)
    upload,    \* per request: the upload (has a file part, image mode is RGBA)
    status,    \* per request: HTTP status of the response (0: none yet)
    body,      \* per request: the non-streamed response body
    stream,    \* per request: what the generator has yielded, in order
    log,       \* per request: the calls made to collaborators / the OS, in order
    tmp_dir,   \* per request: the local tmp_dir (None or a path)
    dirs,      \* the file system: the workspace directories that exist
    touched,   \* per request: the files it has written or read, as (dir, name)
    archive,   \* per request: entries of the returned zip archive
    content    \* the bytes of the artifact files and of str(e), as tokens

vars == <<pipe, clients, faulty, impatient, pc, endpoint, upload, status, body, stream,
          log, tmp_dir, dirs, touched, archive, content>>

\* ------------------------------------------------------------------ bounds
MaxReqs == 2

\* Longest artifact payload / exception text, in tokens.
MaxPayload == 3

Reqs == 1..MaxReqs

None == [prefix |-> "None", id |-> 0]

BOUNDARY == "frame"

\* ------------------------------------------------------- string formatting
\* A string template is a sequence of tokens.  An f-string substitutes the
\* replacement field {BOUNDARY}; a plain literal keeps it as written.
FString(t) == [i \in DOMAIN t |-> IF t[i] = "{BOUNDARY}" THEN BOUNDARY ELSE t[i]]

StrLiteral(t) == t

\* ------------------------------------------------------------ wire frames
\* One multipart part: the delimiter line that opens it, its headers and its
\* payload (the JSON fields, or the attached file's name).
Part(ctype, st, step, message, filename) ==
    [t |-> "part", toks |-> FString(<<"--", "{BOUNDARY}">>), ctype |-> ctype,
     status |-> st, step |-> step, message |-> message, filename |-> filename]

\* A bare line of the byte stream (no headers, no payload).
Line(toks) ==
    [t |-> "line", toks |-> toks, ctype |-> "", status |-> "", step |-> "",
     message |-> "", filename |-> ""]

send_progress_update(step, message) ==
    Part("application/json", "progress", step, message, "")

send_error_update(step, message) ==
    Part("application/json", "error", step, message, "")

send_file(mime_type, filename) ==
    Part(mime_type, "", "", "", filename)

complete_frame ==
    Part("application/json", "complete", "", "All files generated.", "")

end_of_stream == Line(FString(<<"--", "{BOUNDARY}", "--">>))

\* The single chunk yielded by the outer except handler: the error part and,
\* in the same chunk, the closing text built from a plain string literal.
unhandled_exception_chunk ==
    << Part("application/json", "error", "Streaming",
            "Unhandled exception during generation", ""),
       Line(StrLiteral(<<"--", "{BOUNDARY}", "--">>)) >>

\* ----------------------------------------------------------- byte stream
\* Bytes are modelled as tokens; adjacent tokens are adjacent bytes.
Bytes == {"x", "CRLF", "--", "frame"}

SeqsUpTo(S, n) == UNION {[1..k -> S] : k \in 0..n}

Payloads == SeqsUpTo(Bytes, MaxPayload)

\* json.dumps escapes control characters; json.loads undoes it.
json_dumps_str(t) == [i \in DOMAIN t |-> IF t[i] = "CRLF" THEN "\\r\\n" ELSE t[i]]

json_loads_str(t) == [i \in DOMAIN t |-> IF t[i] = "\\r\\n" THEN "CRLF" ELSE t[i]]

ContentTypeHeader(ctype) ==
    IF ctype = "application/json" THEN "Content-Type: application/json"
    ELSE IF ctype = "video/mp4" THEN "Content-Type: video/mp4"
    ELSE "Content-Type: application/octet-stream"

DispositionHeader(filename) ==
    IF filename = "preview.mp4"
    THEN "Content-Disposition: attachment; filename=preview.mp4"
    ELSE "Content-Disposition: attachment; filename=output.glb"

\* The bytes of one yielded item.  c: the file's bytes for a File part, str(e)
\* for an error part.
EncodeItem(e, c) ==
    IF e.t = "line" THEN e.toks \o <<"CRLF">>
    ELSE e.toks \o <<"CRLF", ContentTypeHeader(e.ctype), "CRLF">>
         \o (IF e.filename # "" THEN <<DispositionHeader(e.filename), "CRLF">> ELSE <<>>)
         \o <<"CRLF">>
         \o (IF e.filename # "" THEN c
             ELSE <<"{", "status", e.status>>
                  \o (IF e.status = "complete" THEN <<>> ELSE <<"step", e.step>>)
                  \o <<"message", e.message>>
                  \o (IF e.status = "error" THEN json_dumps_str(c) ELSE <<>>)
                  \o <<"}">>)
         \o <<"CRLF">>

RECURSIVE EncodeStream(_, _)
EncodeStream(q, c) ==
    IF q = <<>> THEN <<>> ELSE EncodeItem(Head(q), c) \o EncodeStream(Tail(q), c)

\* --------------------------------------------------------- collaborators
\* Calling the operations ops in order where the k-th raises (k = 0: none
\* raises): the calls made, each with its result.
RunOps(ops, k) ==
    [i \in 1..(IF k = 0 THEN Len(ops) ELSE k) |->
        [op |-> ops[i], res |-> IF i = k THEN "raise" ELSE "ok"]]

Outcomes(r, ops) == IF r \in faulty THEN 0..Len(ops) ELSE {0}

Uploads == [hasFile : BOOLEAN, rgba : BOOLEAN]

NoUpload == [hasFile |-> FALSE, rgba |-> FALSE]

NoBody == [ctype |-> "", status |-> "", step |-> ""]

\* Mutant: the error body lacks its step.
JsonError_no_step(step) == [ctype |-> "application/json", status |-> "error", step |-> ""]

JsonError(step) == [ctype |-> "application/json", status |-> "error", step |-> step]

\* Mutant: the identifier is drawn once, at import time, and shared.
uuid4_drawn_once(r) == 1

\* uuid.uuid4().hex: a fresh identifier on every call.  Each request makes one
\* call, so the identifiers are named after the request that drew them.
uuid4(r) == r

\* Image.open plus, for an image without alpha channel, rembg.remove.
PreprocessOps(up) ==
    <<"write_input", "Image.open">> \o (IF up.rgba THEN <<>> ELSE <<"remove">>)

\* The calls of each stage of generate_frames_impl, in order.
WorkspaceOps == <<"os.makedirs">>

InferenceOps == <<"pipe.run">>

VideoOps == <<"render_video", "imageio.mimsave", "send_file(preview.mp4)">>

MeshOps == <<"to_glb", "export">>

MeshSendOps == <<"send_file(output.glb)">>

\* The file each call writes or reads: os.path.join(dir, <name>).
FileOps == {"write_input", "Image.open", "imageio.mimsave", "send_file(preview.mp4)",
            "export", "send_file(output.glb)", "ZipFile.write"}

FileName(ep, op) ==
    IF op \in {"write_input", "Image.open"}
    THEN (IF ep = "generate" THEN "input_image.png" ELSE "input.png")
    ELSE IF op \in {"imageio.mimsave", "send_file(preview.mp4)"} THEN "preview.mp4"
    ELSE IF op \in {"export", "send_file(output.glb)"} THEN "output.glb"
    ELSE "generated_output.zip"

\* The files the calls made touch, all joined to the directory dir.
Accesses(dir, ep, made) ==
    {[dir |-> dir, name |-> FileName(ep, made[i].op)] :
        i \in {j \in DOMAIN made : made[j].op \in FileOps}}

Touch(r, dir, ep, made) ==
    touched' = [touched EXCEPT ![r] = @ \cup Accesses(dir, ep, made)]

\* Mutant: the cleanup is left out.
finally_rmtree_skipped(r) == dirs

\* The finally block of generate_frames_impl: the file system after it.
finally_rmtree(r) ==
    IF tmp_dir[r] # None /\ tmp_dir[r] \in dirs THEN dirs \ {tmp_dir[r]} ELSE dirs

Yields == {"y76", "y94", "y97", "y102", "y109", "y110", "y114", "y117", "y127",
           "y128", "y132", "y136", "y142", "y148"}

\* -------------------------------------------------------------------- Init
InitCommon ==
    /\ pipe \in BOOLEAN
    /\ pc = [r \in Reqs |-> "idle"]
    /\ endpoint = [r \in Reqs |-> ""]
    /\ upload = [r \in Reqs |-> NoUpload]
    /\ status = [r \in Reqs |-> 0]
    /\ body = [r \in Reqs |-> NoBody]
    /\ stream = [r \in Reqs |-> <<>>]
    /\ log = [r \in Reqs |-> <<>>]
    /\ tmp_dir = [r \in Reqs |-> None]
    /\ dirs = {}
    /\ touched = [r \in Reqs |-> {}]
    /\ archive = [r \in Reqs |-> {}]

\* One client; any of its collaborator calls may raise and it may disconnect
\* at any yield.
Init ==
    /\ InitCommon
    /\ content = <<"x">>
    /\ clients = {1}
    /\ faulty = {1}
    /\ impatient = {1}

\* Every slot has a client, each served by its own thread (threaded=True).
\* Request 1 is as in Init; the other requests run without faults and their
\* clients read their streams to the end.
InitConc ==
    /\ InitCommon
    /\ content = <<"x">>
    /\ clients = Reqs
    /\ faulty = {1}
    /\ impatient = {1}

\* Mutant: the upload is checked before the model.
generate_upload_checked_first(r) ==
    /\ pc[r] = "idle"
    /\ r \in clients
    /\ \E up \in Uploads : \E k \in Outcomes(r, <<"upload.read">>) :
        /\ endpoint' = [endpoint EXCEPT ![r] = "generate"]
        /\ upload' = [upload EXCEPT ![r] = up]
        /\ IF ~up.hasFile
           THEN /\ status' = [status EXCEPT ![r] = 400]
                /\ body' = [body EXCEPT ![r] = JsonError("Initialization")]
                /\ pc' = [pc EXCEPT ![r] = "done"]
                /\ log' = log
           ELSE IF ~pipe
           THEN /\ status' = [status EXCEPT ![r] = 503]
                /\ body' = [body EXCEPT ![r] =
                              [ctype |-> "text/html", status |-> "", step |-> ""]]
                /\ pc' = [pc EXCEPT ![r] = "done"]
                /\ log' = log
           ELSE IF k # 0
           THEN /\ status' = [status EXCEPT ![r] = 500]
                /\ body' = [body EXCEPT ![r] = JsonError("Initialization")]
                /\ pc' = [pc EXCEPT ![r] = "done"]
                /\ log' = [log EXCEPT ![r] = @ \o RunOps(<<"upload.read">>, k)]
           ELSE /\ status' = [status EXCEPT ![r] = 200]
                /\ body' = body
                /\ pc' = [pc EXCEPT ![r] = "gen_created"]
                /\ log' = [log EXCEPT ![r] = @ \o RunOps(<<"upload.read">>, k)]
    /\ UNCHANGED <<pipe, content, clients, faulty, impatient, touched, stream, tmp_dir, dirs, archive>>

\* As Init, for any content of the files and of the exception texts.
InitWire ==
    /\ InitCommon
    /\ content \in Payloads
    /\ clients = {1}
    /\ faulty = {1}
    /\ impatient = {1}

\* ------------------------------------------------------ /generate handler
generate(r) ==
    /\ pc[r] = "idle"
    /\ r \in clients
    /\ \E up \in Uploads : \E k \in Outcomes(r, <<"upload.read">>) :
        /\ endpoint' = [endpoint EXCEPT ![r] = "generate"]
        /\ upload' = [upload EXCEPT ![r] = up]
        /\ IF ~pipe
           THEN /\ status' = [status EXCEPT ![r] = 503]
                /\ body' = [body EXCEPT ![r] =
                              [ctype |-> "text/html", status |-> "", step |-> ""]]
                /\ pc' = [pc EXCEPT ![r] = "done"]
                /\ log' = log
           ELSE IF ~up.hasFile
           THEN /\ status' = [status EXCEPT ![r] = 400]
                /\ body' = [body EXCEPT ![r] = JsonError("Initialization")]
                /\ pc' = [pc EXCEPT ![r] = "done"]
                /\ log' = log
           ELSE IF k # 0
           THEN /\ status' = [status EXCEPT ![r] = 500]
                /\ body' = [body EXCEPT ![r] = JsonError("Initialization")]
                /\ pc' = [pc EXCEPT ![r] = "done"]
                /\ log' = [log EXCEPT ![r] = @ \o RunOps(<<"upload.read">>, k)]
           ELSE /\ status' = [status EXCEPT ![r] = 200]
                /\ body' = body
                /\ pc' = [pc EXCEPT ![r] = "gen_created"]
                /\ log' = [log EXCEPT ![r] = @ \o RunOps(<<"upload.read">>, k)]
    /\ UNCHANGED <<pipe, content, clients, faulty, impatient, touched, stream, tmp_dir, dirs, archive>>

\* ------------------------------------------------- generate_frames_impl
Emit(r, frames) == stream' = [stream EXCEPT ![r] = @ \o frames]

Goto(r, l) == pc' = [pc EXCEPT ![r] = l]

\* First next(): run to the first yield.
start(r) ==
    /\ pc[r] = "gen_created"
    /\ Emit(r, <<send_progress_update("Preprocessing", "Preparing image...")>>)
    /\ Goto(r, "y76")
    /\ UNCHANGED <<pipe, content, clients, faulty, impatient, touched, endpoint, upload, status, body, log,
                   tmp_dir, dirs, archive>>

\* Mutant: the workspace is created only after the image was preprocessed.
resume_y76_late_makedirs(r) ==
    /\ pc[r] = "y76"
    /\ LET ops == PreprocessOps(upload[r]) \o WorkspaceOps
           path == [prefix |-> "trellis_", id |-> uuid4(r)]
       IN \E k \in Outcomes(r, ops) :
            /\ tmp_dir' = [tmp_dir EXCEPT ![r] = path]
            /\ dirs' = IF k = 0 THEN dirs \cup {path} ELSE dirs
            /\ log' = [log EXCEPT ![r] = @ \o RunOps(ops, k)]
            /\ Touch(r, path, "generate", RunOps(ops, k))
            /\ IF k = 0
               THEN /\ Emit(r, <<send_progress_update("Preprocessing", "Image processed.")>>)
                    /\ Goto(r, "y94")
               ELSE /\ Emit(r, unhandled_exception_chunk)
                    /\ Goto(r, "y148")
    /\ UNCHANGED <<pipe, content, clients, faulty, impatient, endpoint, upload, status, body, archive>>

\* Lines 78-94: workspace creation and preprocessing.
resume_y76(r) ==
    /\ pc[r] = "y76"
    /\ LET ops == WorkspaceOps \o PreprocessOps(upload[r])
           path == [prefix |-> "trellis_", id |-> uuid4(r)]
       IN \E k \in Outcomes(r, ops) :
            /\ tmp_dir' = [tmp_dir EXCEPT ![r] = path]
            /\ dirs' = IF k = 1 THEN dirs ELSE dirs \cup {path}
            /\ log' = [log EXCEPT ![r] = @ \o RunOps(ops, k)]
            /\ Touch(r, path, "generate", RunOps(ops, k))
            /\ IF k = 0
               THEN /\ Emit(r, <<send_progress_update("Preprocessing", "Image processed.")>>)
                    /\ Goto(r, "y94")
               ELSE /\ Emit(r, unhandled_exception_chunk)
                    /\ Goto(r, "y148")
    /\ UNCHANGED <<pipe, content, clients, faulty, impatient, endpoint, upload, status, body, archive>>

resume_y94(r) ==
    /\ pc[r] = "y94"
    /\ Emit(r, <<send_progress_update("Rendering Video", "Starting asset generation.")>>)
    /\ Goto(r, "y97")
    /\ UNCHANGED <<pipe, content, clients, faulty, impatient, touched, endpoint, upload, status, body, log,
                   tmp_dir, dirs, archive>>

\* Line 99: the call of pipe.run begins.
resume_y97(r) ==
    /\ pc[r] = "y97"
    /\ log' = [log EXCEPT ![r] = Append(@, [op |-> "pipe.run", res |-> "pending"])]
    /\ Goto(r, "run")
    /\ UNCHANGED <<pipe, content, clients, faulty, impatient, touched, endpoint, upload, status, body, stream,
                   tmp_dir, dirs, archive>>

\* Mutant: an exception of pipe.run escapes the generator (no outer handler):
\* only the finally block runs.
run_return_uncaught(r) ==
    /\ pc[r] = "run"
    /\ \E k \in Outcomes(r, InferenceOps) :
        /\ log' = [log EXCEPT ![r] = SubSeq(@, 1, Len(@) - 1) \o RunOps(InferenceOps, k)]
        /\ IF k = 0
           THEN /\ Emit(r, <<send_progress_update("Rendering Video",
                                                  "Cooking up a preliminary video...")>>)
                /\ Goto(r, "y102")
                /\ dirs' = dirs
           ELSE /\ stream' = stream
                /\ Goto(r, "done")
                /\ dirs' = dirs \ {tmp_dir[r]}
    /\ UNCHANGED <<pipe, content, clients, faulty, impatient, touched, endpoint, upload, status, body,
                   tmp_dir, archive>>

\* Mutant: inference is isolated like a non-fatal stage: its error is reported
\* and the pipeline goes on.
run_return_nonfatal(r) ==
    /\ pc[r] = "run"
    /\ \E k \in Outcomes(r, InferenceOps) :
        /\ log' = [log EXCEPT ![r] = SubSeq(@, 1, Len(@) - 1) \o RunOps(InferenceOps, k)]
        /\ IF k = 0
           THEN Emit(r, <<send_progress_update("Rendering Video",
                                               "Cooking up a preliminary video...")>>)
           ELSE Emit(r, <<send_error_update("Streaming",
                                            "Unhandled exception during generation")>>)
        /\ Goto(r, "y102")
    /\ UNCHANGED <<pipe, content, clients, faulty, impatient, touched, endpoint, upload, status, body,
                   tmp_dir, dirs, archive>>

\* Mutant: a failed inference is tried again.
run_return_retry(r) ==
    /\ pc[r] = "run"
    /\ \E k \in Outcomes(r, InferenceOps) :
        IF k = 0
        THEN /\ log' = [log EXCEPT ![r] =
                          SubSeq(@, 1, Len(@) - 1) \o RunOps(InferenceOps, k)]
             /\ Emit(r, <<send_progress_update("Rendering Video",
                                                "Cooking up a preliminary video...")>>)
             /\ Goto(r, "y102")
        ELSE /\ log' = [log EXCEPT ![r] = SubSeq(@, 1, Len(@) - 1)]
             /\ stream' = stream
             /\ Goto(r, "y97")
    /\ UNCHANGED <<pipe, content, clients, faulty, impatient, touched, endpoint, upload, status, body,
                   tmp_dir, dirs, archive>>

\* Line 99: pipe.run returns or raises.
run_return(r) ==
    /\ pc[r] = "run"
    /\ \E k \in Outcomes(r, InferenceOps) :
        /\ log' = [log EXCEPT ![r] = SubSeq(@, 1, Len(@) - 1) \o RunOps(InferenceOps, k)]
        /\ IF k = 0
           THEN /\ Emit(r, <<send_progress_update("Rendering Video",
                                                  "Cooking up a preliminary video...")>>)
                /\ Goto(r, "y102")
           ELSE /\ Emit(r, unhandled_exception_chunk)
                /\ Goto(r, "y148")
    /\ UNCHANGED <<pipe, content, clients, faulty, impatient, touched, endpoint, upload, status, body, tmp_dir,
                   dirs, archive>>

\* Mutant: the video stage has no try block of its own: its exception reaches
\* the outer handler.
resume_y102_unisolated(r) ==
    /\ pc[r] = "y102"
    /\ \E k \in Outcomes(r, VideoOps) :
        /\ log' = [log EXCEPT ![r] = @ \o RunOps(VideoOps, k)]
        /\ Touch(r, tmp_dir[r], "generate", RunOps(VideoOps, k))
        /\ IF k = 0
           THEN /\ Emit(r, <<send_file("video/mp4", "preview.mp4")>>)
                /\ Goto(r, "y109")
           ELSE /\ Emit(r, unhandled_exception_chunk)
                /\ Goto(r, "y148")
    /\ UNCHANGED <<pipe, content, clients, faulty, impatient, endpoint, upload, status, body,
                   tmp_dir, dirs, archive>>

\* Lines 103-109 / 111-114: render the video and send it, or report the error.
resume_y102(r) ==
    /\ pc[r] = "y102"
    /\ LET ops == VideoOps
       IN \E k \in Outcomes(r, ops) :
            /\ log' = [log EXCEPT ![r] = @ \o RunOps(ops, k)]
            /\ Touch(r, tmp_dir[r], "generate", RunOps(ops, k))
            /\ IF k = 0
               THEN /\ Emit(r, <<send_file("video/mp4", "preview.mp4")>>)
                    /\ Goto(r, "y109")
               ELSE /\ Emit(r, <<send_error_update("Rendering Video",
                                                   "Failed to render turntable video")>>)
                    /\ Goto(r, "y114")
    /\ UNCHANGED <<pipe, content, clients, faulty, impatient, endpoint, upload, status, body, tmp_dir,
                   dirs, archive>>

resume_y109(r) ==
    /\ pc[r] = "y109"
    /\ Emit(r, <<send_progress_update("Rendering Video", "Turntable video complete.")>>)
    /\ Goto(r, "y110")
    /\ UNCHANGED <<pipe, content, clients, faulty, impatient, touched, endpoint, upload, status, body, log,
                   tmp_dir, dirs, archive>>

\* Line 117, reached from the end of the video try block or of its handler.
resume_y110_y114(r) ==
    /\ pc[r] \in {"y110", "y114"}
    /\ Emit(r, <<send_progress_update("Generating GLB", "Generating GLB mesh...")>>)
    /\ Goto(r, "y117")
    /\ UNCHANGED <<pipe, content, clients, faulty, impatient, touched, endpoint, upload, status, body, log,
                   tmp_dir, dirs, archive>>

\* Mutant: the mesh handler reports its error under the video stage's name.
resume_y117_copy_paste(r) ==
    /\ pc[r] = "y117"
    /\ \E k \in Outcomes(r, MeshOps) :
        /\ log' = [log EXCEPT ![r] = @ \o RunOps(MeshOps, k)]
        /\ Touch(r, tmp_dir[r], "generate", RunOps(MeshOps, k))
        /\ IF k = 0
           THEN /\ Emit(r, <<send_progress_update("Generating GLB", "GLB meshed.")>>)
                /\ Goto(r, "y127")
           ELSE /\ Emit(r, <<send_error_update("Rendering Video",
                                               "Failed to render turntable video")>>)
                /\ Goto(r, "y132")
    /\ UNCHANGED <<pipe, content, clients, faulty, impatient, endpoint, upload, status, body,
                   tmp_dir, dirs, archive>>

\* Lines 118-127 / 129-132: build and export the mesh.
resume_y117(r) ==
    /\ pc[r] = "y117"
    /\ LET ops == MeshOps
       IN \E k \in Outcomes(r, ops) :
            /\ log' = [log EXCEPT ![r] = @ \o RunOps(ops, k)]
            /\ Touch(r, tmp_dir[r], "generate", RunOps(ops, k))
            /\ IF k = 0
               THEN /\ Emit(r, <<send_progress_update("Generating GLB", "GLB meshed.")>>)
                    /\ Goto(r, "y127")
               ELSE /\ Emit(r, <<send_error_update("Generating GLB",
                                                   "Failed to generate GLB mesh")>>)
                    /\ Goto(r, "y132")
    /\ UNCHANGED <<pipe, content, clients, faulty, impatient, endpoint, upload, status, body, tmp_dir,
                   dirs, archive>>

\* Line 128 / 129-132: send the mesh file.
resume_y127(r) ==
    /\ pc[r] = "y127"
    /\ LET ops == MeshSendOps
       IN \E k \in Outcomes(r, ops) :
            /\ log' = [log EXCEPT ![r] = @ \o RunOps(ops, k)]
            /\ Touch(r, tmp_dir[r], "generate", RunOps(ops, k))
            /\ IF k = 0
               THEN /\ Emit(r, <<send_file("application/octet-stream", "output.glb")>>)
                    /\ Goto(r, "y128")
               ELSE /\ Emit(r, <<send_error_update("Generating GLB",
                                                   "Failed to generate GLB mesh")>>)
                    /\ Goto(r, "y132")
    /\ UNCHANGED <<pipe, content, clients, faulty, impatient, endpoint, upload, status, body, tmp_dir,
                   dirs, archive>>

\* Lines 134-141: the completion message.
resume_y128_y132(r) ==
    /\ pc[r] \in {"y128", "y132"}
    /\ Emit(r, <<complete_frame>>)
    /\ Goto(r, "y136")
    /\ UNCHANGED <<pipe, content, clients, faulty, impatient, touched, endpoint, upload, status, body, log,
                   tmp_dir, dirs, archive>>

\* Mutant: a closing progress update is sent after the completion message.
resume_y136_trailing(r) ==
    /\ pc[r] = "y136"
    /\ Emit(r, <<send_progress_update("Generating GLB", "Done."), end_of_stream>>)
    /\ Goto(r, "y142")
    /\ UNCHANGED <<pipe, content, clients, faulty, impatient, touched, endpoint, upload, status, body,
                   log, tmp_dir, dirs, archive>>

\* Line 142: end of the multipart stream.
resume_y136(r) ==
    /\ pc[r] = "y136"
    /\ Emit(r, <<end_of_stream>>)
    /\ Goto(r, "y142")
    /\ UNCHANGED <<pipe, content, clients, faulty, impatient, touched, endpoint, upload, status, body, log,
                   tmp_dir, dirs, archive>>

\* The generator runs off its end (after line 142 or after the except
\* handler's yield): the finally block, then StopIteration.
resume_y142_y148(r) ==
    /\ pc[r] \in {"y142", "y148"}
    /\ dirs' = finally_rmtree(r)
    /\ Goto(r, "done")
    /\ UNCHANGED <<pipe, content, clients, faulty, impatient, touched, endpoint, upload, status, body, stream,
                   log, tmp_dir, archive>>

\* Mutant: the cleanup sits after the try statement, not in a finally block,
\* so GeneratorExit skips it.
close_without_finally(r) ==
    /\ r \in impatient
    /\ pc[r] \in Yields \cup {"gen_created"}
    /\ Goto(r, "closed")
    /\ UNCHANGED <<pipe, content, clients, faulty, impatient, touched, endpoint, upload, status, body,
                   stream, log, tmp_dir, dirs, archive>>

\* The client disconnects: the server closes the generator.  GeneratorExit is
\* raised at the pending yield; it is no Exception, so only finally runs.  A
\* generator that never started runs no code.
close(r) ==
    /\ r \in impatient
    /\ pc[r] \in Yields \cup {"gen_created"}
    /\ dirs' = IF pc[r] = "gen_created" THEN dirs ELSE finally_rmtree(r)
    /\ Goto(r, "closed")
    /\ UNCHANGED <<pipe, content, clients, faulty, impatient, touched, endpoint, upload, status, body, stream,
                   log, tmp_dir, archive>>

\* -------------------------------------------------- /generate_zip handler
\* Lines 195-218: up to the call of pipe.run.
generate_zip(r) ==
    /\ pc[r] = "idle"
    /\ r \in clients
    /\ \E up \in Uploads :
        LET ops == <<"upload.read", "os.makedirs">> \o PreprocessOps(up)
            path == [prefix |-> "zip_", id |-> uuid4(r)]
        IN \E k \in Outcomes(r, ops) :
            /\ endpoint' = [endpoint EXCEPT ![r] = "generate_zip"]
            /\ upload' = [upload EXCEPT ![r] = up]
            /\ IF ~pipe
               THEN /\ status' = [status EXCEPT ![r] = 503]
                    /\ body' = [body EXCEPT ![r] =
                                  [ctype |-> "text/html", status |-> "", step |-> ""]]
                    /\ pc' = [pc EXCEPT ![r] = "done"]
                    /\ UNCHANGED <<log, tmp_dir, dirs, touched>>
               ELSE IF ~up.hasFile
               THEN /\ status' = [status EXCEPT ![r] = 400]
                    /\ body' = [body EXCEPT ![r] = JsonError("Initialization")]
                    /\ pc' = [pc EXCEPT ![r] = "done"]
                    /\ UNCHANGED <<log, tmp_dir, dirs, touched>>
               ELSE IF k = 1
               THEN \* uploaded.read() raises: Flask answers 500
                    /\ status' = [status EXCEPT ![r] = 500]
                    /\ body' = [body EXCEPT ![r] =
                                  [ctype |-> "text/html", status |-> "", step |-> ""]]
                    /\ pc' = [pc EXCEPT ![r] = "done"]
                    /\ log' = [log EXCEPT ![r] = @ \o RunOps(ops, k)]
                    /\ UNCHANGED <<tmp_dir, dirs, touched>>
               ELSE IF k # 0
               THEN \* makedirs raises before the try, or preprocessing raises
                    \* inside it and the finally block removes the directory
                    /\ status' = [status EXCEPT ![r] = 500]
                    /\ body' = [body EXCEPT ![r] =
                                  [ctype |-> "text/html", status |-> "", step |-> ""]]
                    /\ pc' = [pc EXCEPT ![r] = "done"]
                    /\ log' = [log EXCEPT ![r] = @ \o RunOps(ops, k)]
                            /\ tmp_dir' = [tmp_dir EXCEPT ![r] = path]
                    /\ dirs' = dirs \ {path}
                    /\ Touch(r, path, "generate_zip", RunOps(ops, k))
               ELSE /\ status' = status
                    /\ body' = body
                    /\ pc' = [pc EXCEPT ![r] = "zip_run"]
                    /\ log' = [log EXCEPT ![r] = @ \o RunOps(ops, k)
                                   \o <<[op |-> "pipe.run", res |-> "pending"]>>]
                            /\ tmp_dir' = [tmp_dir EXCEPT ![r] = path]
                    /\ dirs' = dirs \cup {path}
                    /\ Touch(r, path, "generate_zip", RunOps(ops, k))
    /\ UNCHANGED <<pipe, content, clients, faulty, impatient, stream, archive>>

\* Lines 218-240: pipe.run returns or raises; rendering, export, archive,
\* response; the finally block removes the directory.
zip_return(r) ==
    /\ pc[r] = "zip_run"
    /\ LET ops == <<"pipe.run", "render_video", "imageio.mimsave", "to_glb",
                    "export", "ZipFile.write">>
       IN \E k \in Outcomes(r, ops) :
            /\ log' = [log EXCEPT ![r] = SubSeq(@, 1, Len(@) - 1) \o RunOps(ops, k)]
            /\ Touch(r, tmp_dir[r], "generate_zip", RunOps(ops, k))
            /\ IF k = 0
               THEN /\ status' = [status EXCEPT ![r] = 200]
                    /\ body' = [body EXCEPT ![r] =
                                  [ctype |-> "application/zip", status |-> "", step |-> ""]]
                    /\ archive' = [archive EXCEPT ![r] = {"preview.mp4", "output.glb"}]
               ELSE /\ status' = [status EXCEPT ![r] = 500]
                    /\ body' = [body EXCEPT ![r] =
                                  [ctype |-> "text/html", status |-> "", step |-> ""]]
                    /\ archive' = archive
    /\ dirs' = dirs \ {tmp_dir[r]}
    /\ Goto(r, "done")
    /\ UNCHANGED <<pipe, content, clients, faulty, impatient, endpoint, upload, stream, tmp_dir>>

\* -------------------------------------------------------------------- Next
Next ==
    \E r \in Reqs :
        \/ generate(r)
        \/ start(r)
        \/ resume_y76(r)
        \/ resume_y94(r)
        \/ resume_y97(r)
        \/ run_return(r)
        \/ resume_y102(r)
        \/ resume_y109(r)
        \/ resume_y110_y114(r)
        \/ resume_y117(r)
        \/ resume_y127(r)
        \/ resume_y128_y132(r)
        \/ resume_y136(r)
        \/ resume_y142_y148(r)
        \/ close(r)
        \/ generate_zip(r)
        \/ zip_return(r)

Spec == Init /\ [][Next]_vars

SpecConc == InitConc /\ [][Next]_vars

\* ============================================================ observation
Range(q) == {q[i] : i \in DOMAIN q}

IsEvent(e) == e.t = "part"

IsProgress(e) == e.t = "part" /\ e.status = "progress"

IsError(e) == e.t = "part" /\ e.status = "error"

IsComplete(e) == e.t = "part" /\ e.status = "complete"

IsFile(e) == e.t = "part" /\ e.filename # ""

\* The steps under which the two isolated (non-fatal) stages report.
NonFatalSteps == {"Rendering Video", "Generating GLB"}

\* An Error event that is not the report of an isolated stage.
IsFatalError(e) == IsError(e) /\ e.step \notin NonFatalSteps

IsTerminal(e) == IsComplete(e) \/ IsFatalError(e)

\* The stream terminator: the boundary token between two "--".
IsTerminator(e) == e.t = "line" /\ e.toks = <<"--", BOUNDARY, "--">>

Raised(r, ops) ==
    \E i \in DOMAIN log[r] : log[r][i].res = "raise" /\ log[r][i].op \in Range(ops)

Returned(r, op) == \E i \in DOMAIN log[r] : log[r][i] = [op |-> op, res |-> "ok"]

Invoked(r, op) == \E i \in DOMAIN log[r] : log[r][i].op = op

HasFile(r, name) ==
    \E i \in DOMAIN stream[r] : IsFile(stream[r][i]) /\ stream[r][i].filename = name

HasComplete(r) == \E i \in DOMAIN stream[r] : IsComplete(stream[r][i])

ErrorsOf(r, step) ==
    {i \in DOMAIN stream[r] : IsError(stream[r][i]) /\ stream[r][i].step = step}

Terminals(r) == {i \in DOMAIN stream[r] : IsTerminal(stream[r][i])}

\* The /generate stream of r ran to its end (the client read all of it).
StreamEnded(r) == endpoint[r] = "generate" /\ status[r] = 200 /\ pc[r] = "done"

\* The request is over: answered, stream exhausted or generator closed.
Finished(r) == pc[r] \in {"done", "closed"}

VideoFailed(r) == Raised(r, VideoOps)

MeshFailed(r) == Raised(r, MeshOps \o MeshSendOps)

FatalFailed(r) ==
    Raised(r, WorkspaceOps \o <<"write_input", "Image.open", "remove">> \o InferenceOps)

\* ================================================================= claims

\* C1: every /generate stream that ends (success, fatal failure, unexpected
\* fault) holds the terminator frame "--frame--" exactly once, and it is the
\* frame right after the terminal event (Complete or the fatal Error).
C1_TerminatorOnceAfterTerminal ==
    \A r \in Reqs : StreamEnded(r) =>
        \E i \in DOMAIN stream[r] :
            /\ i > 1
            /\ IsTerminator(stream[r][i])
            /\ IsTerminal(stream[r][i - 1])
            /\ \A j \in DOMAIN stream[r] : IsTerminator(stream[r][j]) => j = i

\* C2: a /generate stream never holds more than one terminal event, and one
\* that ran to its end without disconnect holds exactly one: Complete or the
\* fatal Error, whatever stages failed.
C2_ExactlyOneTerminal ==
    \A r \in Reqs :
        /\ Cardinality(Terminals(r)) <= 1
        /\ StreamEnded(r) => Cardinality(Terminals(r)) = 1

C2_Witness ==
    /\ StreamEnded(1)
    /\ Raised(1, <<"render_video">>)
    /\ Raised(1, MeshSendOps)
    /\ HasComplete(1)

C4_PartialSuccess ==
    \A r \in Reqs :
        (StreamEnded(r) /\ Returned(r, "pipe.run") /\ (VideoFailed(r) \/ MeshFailed(r))) =>
            /\ HasComplete(r)
            /\ ~VideoFailed(r) => HasFile(r, "preview.mp4")
            /\ ~MeshFailed(r) => HasFile(r, "output.glb")

C4_Witness ==
    /\ StreamEnded(1)
    /\ Raised(1, <<"imageio.mimsave">>)
    /\ Returned(1, "send_file(output.glb)")
    /\ HasFile(1, "output.glb")
    /\ HasComplete(1)

\* C5: a non-fatal stage that fails gets exactly one Error event under its own
\* step name and no File event, and the next step is still taken: mesh export
\* is attempted after a video failure, Complete follows a mesh failure.
C5_NonFatalIsolated ==
    \A r \in Reqs : endpoint[r] = "generate" =>
        /\ VideoFailed(r) =>
            /\ Cardinality(ErrorsOf(r, "Rendering Video")) = 1
            /\ ~HasFile(r, "preview.mp4")
            /\ StreamEnded(r) => Invoked(r, "to_glb")
        /\ MeshFailed(r) =>
            /\ Cardinality(ErrorsOf(r, "Generating GLB")) = 1
            /\ ~HasFile(r, "output.glb")
            /\ StreamEnded(r) => HasComplete(r)

C5_Witness ==
    /\ StreamEnded(1)
    /\ Raised(1, <<"send_file(preview.mp4)">>)
    /\ Raised(1, <<"export">>)

\* C6: once a request (/generate or /generate_zip) is over, on any exit path
\* including a client disconnect, its workspace directory does not exist.
C6_WorkspaceRemoved ==
    \A r \in Reqs : Finished(r) => tmp_dir[r] \notin dirs

C6_Witness ==
    /\ pc[1] = "closed"
    /\ Returned(1, "os.makedirs")
    /\ HasFile(1, "preview.mp4")
    /\ ~HasComplete(1)

\* C7: in a /generate stream the Progress event that reports an artifact stage
\* as done is preceded by that stage's File event.
DoneProgress ==
    { [step |-> "Rendering Video", message |-> "Turntable video complete.",
       filename |-> "preview.mp4"],
      [step |-> "Generating GLB", message |-> "GLB meshed.",
       filename |-> "output.glb"] }

C7_FileBeforeDone ==
    \A r \in Reqs : \A j \in DOMAIN stream[r] : \A d \in DoneProgress :
        (IsProgress(stream[r][j]) /\ stream[r][j].step = d.step
                                  /\ stream[r][j].message = d.message) =>
            \E i \in 1..(j - 1) :
                IsFile(stream[r][i]) /\ stream[r][i].filename = d.filename

\* C8: after a fatal stage of /generate failed (workspace creation,
\* preprocessing, inference) no further call is made, the stream holds no File
\* and no Complete event, and it ends with the Error event and its closing line.
C8_FatalStops ==
    \A r \in Reqs :
        (endpoint[r] = "generate" /\ FatalFailed(r)) =>
            /\ log[r][Len(log[r])].res = "raise"
            /\ \A i \in DOMAIN stream[r] : ~IsFile(stream[r][i]) /\ ~IsComplete(stream[r][i])
            /\ Len(stream[r]) >= 2
            /\ IsError(stream[r][Len(stream[r]) - 1])
            /\ ~IsEvent(stream[r][Len(stream[r])])
            /\ pc[r] \in {"y148", "done", "closed"}

C8_Witness ==
    /\ StreamEnded(1)
    /\ Raised(1, InferenceOps)

\* C9: every Error event of a /generate stream carries the step under which
\* the stage that failed was announced.
AnnouncedStep(op) ==
    IF op \in Range(WorkspaceOps) \cup {"write_input", "Image.open", "remove"}
    THEN "Preprocessing"
    ELSE IF op \in Range(InferenceOps) \cup Range(VideoOps)
    THEN "Rendering Video"
    ELSE "Generating GLB"

C9_ErrorNamesFailedStage ==
    \A r \in Reqs : \A i \in DOMAIN stream[r] :
        IsError(stream[r][i]) =>
            \E j \in DOMAIN log[r] :
                /\ log[r][j].res = "raise"
                /\ AnnouncedStep(log[r][j].op) = stream[r][i].step

\* C10: across all requests at most one call of pipe.run is in flight.
InFlight == {r \in Reqs : pc[r] \in {"run", "zip_run"}}

C10_OneInferenceInFlight == Cardinality(InFlight) <= 1

\* C11: when the client disconnects mid-stream (the generator is closed at the
\* pending yield), the closing step makes no call and emits no event, the
\* workspace directory is gone after it, and from then on the request makes no
\* call and emits no event.
C11_DisconnectStopsWork ==
    [][\A r \in Reqs :
          /\ pc[r] = "closed" => pc'[r] = "closed"
          /\ pc'[r] = "closed" =>
                /\ pc[r] \in Yields \cup {"gen_created", "closed"}
                /\ stream'[r] = stream[r]
                /\ log'[r] = log[r]
                /\ tmp_dir'[r] \notin dirs']_vars

C11_Witness ==
    /\ pc[1] = "closed"
    /\ Returned(1, "os.makedirs")
    /\ ~Invoked(1, "pipe.run")
    /\ pc[2] = "done"
    /\ HasComplete(2)

\* C12: /generate_zip with preprocessing and inference succeeding and video
\* rendering failing answers 200 with an archive holding output.glb and not
\* preview.mp4.
C12_ZipPartialArchive ==
    \A r \in Reqs :
        (endpoint[r] = "generate_zip" /\ pc[r] = "done" /\ Returned(r, "pipe.run")
            /\ Raised(r, <<"render_video", "imageio.mimsave">>)) =>
            /\ status[r] = 200
            /\ archive[r] = {"output.glb"}

\* C13 (as stated): a request without file part is answered 400 with the JSON
\* error of step Initialization in every server state, creates no workspace
\* and calls no collaborator.
C13_MissingFile400Always ==
    \A r \in Reqs :
        (pc[r] = "done" /\ endpoint[r] # "" /\ ~upload[r].hasFile) =>
            /\ status[r] = 400
            /\ body[r] = [ctype |-> "application/json", status |-> "error",
                          step |-> "Initialization"]
            /\ tmp_dir[r] = None
            /\ log[r] = <<>>

\* C13 (amended): while the model is loaded, a request without file part is
\* answered 400 with the JSON error of step Initialization, creates no
\* workspace and calls no collaborator.
C13_MissingFile400WhenLoaded ==
    \A r \in Reqs :
        (pipe /\ endpoint[r] # "" /\ ~upload[r].hasFile) =>
            /\ pc[r] = "done"
            /\ status[r] = 400
            /\ body[r] = [ctype |-> "application/json", status |-> "error",
                          step |-> "Initialization"]
            /\ tmp_dir[r] = None
            /\ log[r] = <<>>
            /\ stream[r] = <<>>
            /\ \A d \in dirs : d.id # uuid4(r)

C13_Witness ==
    /\ pipe
    /\ endpoint[1] = "generate_zip"
    /\ ~upload[1].hasFile
    /\ status[1] = 400

\* C14: when the model failed to load (pipe is None) every /generate and
\* /generate_zip call, whatever its upload, is answered 503, creates no
\* workspace, emits no event and calls no collaborator.
C14_ModelNotLoaded503 ==
    \A r \in Reqs :
        (~pipe /\ endpoint[r] # "") =>
            /\ pc[r] = "done"
            /\ status[r] = 503
            /\ tmp_dir[r] = None
            /\ dirs = {}
            /\ stream[r] = <<>>
            /\ log[r] = <<>>

C14_Witness ==
    /\ ~pipe
    /\ endpoint[1] = "generate"
    /\ ~upload[1].hasFile
    /\ status[1] = 503

\* C16: while pipe.run is running, the last Progress event sent names the
\* inference stage: its step differs from the steps under which preprocessing
\* and video rendering are announced.
LastProgressStep(r) ==
    LET I == {i \in DOMAIN stream[r] : IsProgress(stream[r][i])}
    IN  IF I = {} THEN "" ELSE stream[r][CHOOSE i \in I : \A j \in I : j <= i].step

C16_InferenceAnnouncedByName ==
    \A r \in Reqs :
        (endpoint[r] = "generate" /\ pc[r] = "run") =>
            /\ LastProgressStep(r) # ""
            /\ LastProgressStep(r) # AnnouncedStep("Image.open")
            /\ LastProgressStep(r) # AnnouncedStep("render_video")

\* C17: no /generate stream holds both the done Progress and an Error of the
\* same stage.
C17_NotDoneAndFailed ==
    \A r \in Reqs : \A d \in DoneProgress :
        ~ /\ \E j \in DOMAIN stream[r] :
                 /\ IsProgress(stream[r][j])
                 /\ stream[r][j].step = d.step
                 /\ stream[r][j].message = d.message
          /\ ErrorsOf(r, d.step) # {}

\* C18 (as stated): when os.makedirs fails in /generate no Progress event has
\* been emitted, no collaborator has been called and no Complete follows.
Collaborators == {"remove", "pipe.run", "render_video", "to_glb"}

GenStep(r) ==
    \/ start(r) \/ resume_y76(r) \/ resume_y94(r) \/ resume_y97(r) \/ run_return(r)
    \/ resume_y102(r) \/ resume_y109(r) \/ resume_y110_y114(r) \/ resume_y117(r)
    \/ resume_y127(r) \/ resume_y128_y132(r) \/ resume_y136(r)
    \/ resume_y142_y148(r) \/ close(r)

SpecFair == Init /\ [][Next]_vars /\ \A r \in Reqs : WF_vars(GenStep(r))

Streaming(r) == pc[r] \in Yields \cup {"gen_created", "run"}

C20_StreamEnds ==
    \A r \in Reqs :
        Streaming(r) ~> (Finished(r) /\ tmp_dir[r] \notin dirs /\ ~Streaming(r))

C20_Witness ==
    /\ pc[1] = "done"
    /\ Raised(1, <<"to_glb">>)
    /\ HasComplete(1)
    /\ Returned(1, "os.makedirs")
    /\ tmp_dir[1] \notin dirs

\* C19: with requests served concurrently, the workspaces of two requests
\* differ, every file a request writes or reads lies in its own workspace, and
\* the workspace of a request that is still running exists (no other request's
\* cleanup removed it).
UsesWorkspace(r) == Returned(r, "os.makedirs") /\ ~Finished(r)

C19_WorkspaceIsolation ==
    \A r \in Reqs :
        /\ \A s \in Reqs \ {r} :
              (tmp_dir[r] # None /\ tmp_dir[s] # None) => tmp_dir[r] # tmp_dir[s]
        /\ \A f \in touched[r] : tmp_dir[r] # None /\ f.dir = tmp_dir[r]
        /\ UsesWorkspace(r) => tmp_dir[r] \in dirs

C19_Witness ==
    /\ pc[1] = "closed"
    /\ Returned(1, "imageio.mimsave")
    /\ endpoint[2] = "generate"
    /\ pc[2] = "y109"
    /\ tmp_dir[2] \in dirs
    /\ tmp_dir[1] \notin dirs
    /\ Cardinality(touched[2]) = 2

\* ------------------------------------------- a conforming multipart reader
\* RFC 2046: a delimiter is "--" boundary at the start of a line, followed by
\* the end of the line (a part follows) or by "--" (the close delimiter).
DelimAt(w, i) ==
    /\ i + 2 <= Len(w)
    /\ w[i] = "--" /\ w[i + 1] = BOUNDARY
    /\ w[i + 2] \in {"CRLF", "--"}
    /\ (i = 1 \/ w[i - 1] = "CRLF")

Delims(w) == {i \in 1..Len(w) : DelimAt(w, i)}

Closes(w) == {i \in Delims(w) : w[i + 2] = "--"}

Least(S) == CHOOSE i \in S : \A j \in S : i <= j

\* The delimiters that open a part: those before the close delimiter.
Opens(w) ==
    {i \in Delims(w) : w[i + 2] = "CRLF" /\ (Closes(w) = {} \/ i < Least(Closes(w)))}

\* The bytes of the part opened at i: up to the line end before the next
\* delimiter, or to the end of the input.
PartAt(w, i) ==
    LET later == {j \in Delims(w) : j > i}
    IN  SubSeq(w, i + 3, IF later = {} THEN Len(w) ELSE Least(later) - 2)

Malformed == [kind |-> "malformed", step |-> "", message |-> "", filename |-> "",
              data |-> <<>>]

DecodeJson(b) ==
    IF \/ Len(b) < 6
       \/ b[1] # "{" \/ b[2] # "status" \/ b[Len(b)] # "}"
       \/ \E i \in DOMAIN b : b[i] = "CRLF"
    THEN Malformed
    ELSE IF b[4] = "step" /\ Len(b) >= 8 /\ b[6] = "message"
    THEN [kind |-> b[3], step |-> b[5], message |-> b[7], filename |-> "",
          data |-> json_loads_str(SubSeq(b, 8, Len(b) - 1))]
    ELSE IF b[4] = "message"
    THEN [kind |-> b[3], step |-> "", message |-> b[5], filename |-> "",
          data |-> json_loads_str(SubSeq(b, 6, Len(b) - 1))]
    ELSE Malformed

\* Headers up to the blank line, then the body.
DecodePart(c) ==
    LET B == {j \in DOMAIN c : c[j] = "CRLF" /\ (j = 1 \/ c[j - 1] = "CRLF")}
    IN  IF B = {} THEN Malformed
        ELSE LET blank == Least(B)
                 hdrs == {c[j] : j \in 1..(blank - 1)}
                 b == SubSeq(c, blank + 1, Len(c))
             IN  IF ContentTypeHeader("application/json") \in hdrs THEN DecodeJson(b)
                 ELSE IF DispositionHeader("preview.mp4") \in hdrs
                 THEN [kind |-> "file", step |-> "", message |-> "",
                       filename |-> "preview.mp4", data |-> b]
                 ELSE IF DispositionHeader("output.glb") \in hdrs
                 THEN [kind |-> "file", step |-> "", message |-> "",
                       filename |-> "output.glb", data |-> b]
                 ELSE Malformed

\* What the reader delivers: the parts in order, and whether it saw the close
\* delimiter.
ReadStream(w) ==
    LET O == Opens(w)
        nth(k) == CHOOSE i \in O : Cardinality({j \in O : j < i}) = k - 1
    IN  [events |-> [k \in 1..Cardinality(O) |-> DecodePart(PartAt(w, nth(k)))],
         closed |-> Closes(w) # {}]

\* What was sent: the events of the stream, each with its payload.
SentEvent(e, c) ==
    [kind |-> IF e.filename # "" THEN "file" ELSE e.status, step |-> e.step,
     message |-> e.message, filename |-> e.filename,
     data |-> IF e.filename # "" \/ e.status = "error" THEN c ELSE <<>>]

SentEvents(q, c) ==
    LET I == {i \in DOMAIN q : IsEvent(q[i])}
        nth(k) == CHOOSE i \in I : Cardinality({j \in I : j < i}) = k - 1
    IN  [k \in 1..Cardinality(I) |-> SentEvent(q[nth(k)], c)]

RoundTrip(r) ==
    ReadStream(EncodeStream(stream[r], content)) =
        [events |-> SentEvents(stream[r], content), closed |-> TRUE]

\* C15: a conforming multipart reader with boundary "frame" recovers from the
\* bytes of a finished /generate stream exactly the events sent, with their
\* payloads, also when a file's bytes contain the boundary sequence.  Stated
\* for the streams that end with Complete.
C15_WireRoundTrip ==
    \A r \in Reqs : (StreamEnded(r) /\ HasComplete(r)) => RoundTrip(r)

\* The same for every finished stream, the fatal ones included.
C15_WireRoundTripAll ==
    \A r \in Reqs : StreamEnded(r) => RoundTrip(r)

\* The cases in which the round trip does hold: no file was sent, or the file
\* bytes hold no delimiter line.
C15_WireRoundTripBenign ==
    \A r \in Reqs :
        (StreamEnded(r) /\ HasComplete(r)
            /\ (Delims(<<"CRLF">> \o content \o <<"CRLF">>) = {}
                \/ \A i \in DOMAIN stream[r] : ~IsFile(stream[r][i]))) => RoundTrip(r)

SpecWire == InitWire /\ [][Next]_vars

====
